---- MODULE Spec2Model ----
(***************************************************************************)
(* A model of trakt-data's incremental export (src/src/trakt_data/export.py).*)
(*                                                                         *)
(* Timestamps: the ISO-8601 strings of an activity snapshot are modelled    *)
(* by the instants datetime.fromisoformat parses them to, as integers       *)
(* relative to the Unix epoch (EpochTime); the code compares parsed         *)
(* datetimes, never the strings.                                           *)
(* Paths: a path below output_dir is the sequence of its components,       *)
(* <<"watched", "history.json">>; Path.is_relative_to is the prefix test.   *)
(***************************************************************************)
EXTENDS Integers, Sequences, FiniteSets, TLC

VARIABLES
    pc,              \* position of export_all: the statement/exporter to run next
    files,           \* the paths that exist below output_dir
    disk_activities, \* content of user/last-activities.json (None when absent)
    remote_activities, \* what GET /sync/last_activities answers
    remote_lists,    \* ids of the lists GET /users/me/lists answers
    exclude_paths,   \* ctx.exclude_paths
    old_activities,  \* export_all's local old_activities
    last_activities, \* export_all's local last_activities (the new snapshot)
    fresh_paths,     \* ctx.fresh_paths
    stale_paths,     \* ctx.stale_paths
    requests,        \* the remote requests of this run, in order
    written,         \* the paths write_json wrote in this run, in order
    start_activities, \* history: content of last-activities.json when the run began
    start_files,     \* history: the paths that existed when the run began
    remote_history,  \* watched_at of the items GET /sync/history answers, newest first
    disk_history,    \* watched_at of the items stored in watched/history.json
    remote_shows,    \* ids of the shows GET /sync/watched/shows answers
    disk_watched_shows,  \* ids of the shows stored in watched/watched-shows.json
    disk_progress_shows, \* ids of the shows stored in watched/progress-shows.json
    mtimes,          \* st_mtime of every path that exists below output_dir
    cache,           \* st_mtime of the files cache_dir/media/movies/*/<id>.json, by id
    cache_pc,        \* position of the cache session: "start", "pruned", "looked_up"
    prune,           \* history: the last prune command, its pool and its selection
    lookup,          \* history: the last media lookup and what it did
    run,             \* 1 in the first run of export_all, 2 in the run that follows it
    prev,            \* history: how the first run ended, what it marked stale and wrote
    partition,       \* the arguments of _partition_filename and the path it returned
    page_pc,         \* position of trakt_api_paginated_get: "loop", "returned", "raised"
    page,            \* its local page
    page_count,      \* its local page_count
    item_count,      \* its local item_count
    results,         \* its local results
    page_requests,   \* history: the pages it requested, in order
    last_page_count, \* history: the page count the last response reported
    warned           \* history: it logged the item-count warning

vars == <<pc, files, disk_activities, remote_activities, remote_lists,
          exclude_paths, old_activities, last_activities, fresh_paths,
          stale_paths, requests, written, start_activities, start_files, remote_history,
          disk_history, remote_shows, disk_watched_shows, disk_progress_shows,
          mtimes, cache, cache_pc, prune, lookup, run, prev, partition,
          page_pc, page, page_count, item_count, results, page_requests,
          last_page_count, warned>>

\* the media cache, which export_all never touches
cache_vars == <<cache, cache_pc, prune, lookup>>

\* the sequence of runs
rerun_vars == <<run, prev>>

\* one call of trakt_api_paginated_get
page_vars == <<page_pc, page, page_count, item_count, results, page_requests,
               last_page_count, warned>>

\* the output tree and the run, which the cache commands never touch
run_vars == <<pc, files, disk_activities, remote_activities, remote_lists,
              exclude_paths, old_activities, last_activities, fresh_paths,
              stale_paths, requests, written, start_activities, start_files,
              remote_history, disk_history, remote_shows, disk_watched_shows,
              disk_progress_shows, mtimes, rerun_vars>>

\* what the cache commands never touch
not_cache_vars == <<run_vars, partition, page_vars>>

\* what no action of a run changes: the state the run began from, the
\* sequence of runs, the media cache, the partitioned path and the
\* paginated call
start_vars == <<start_activities, start_files, rerun_vars, cache_vars, partition,
                page_vars>>

\* the documents on disk and at the remote service beyond the snapshot
content_vars == <<remote_history, disk_history, remote_shows,
                  disk_watched_shows, disk_progress_shows>>

----------------------------------------------------------------------------
(* Bounds *)

\* latest instant of a snapshot field, in ticks after the epoch
MaxTime == 1
\* number of lists the remote account may hold
MaxLists == 2
\* number of movies the media cache may hold
MaxMovies == 3
\* largest --min-age, in ticks
MaxMinAge == 1
\* number of distinct watch instants of the history
MaxHistory == 2
\* number of shows the account may have watched
MaxShows == 1

\* datetime.fromtimestamp(0, tz=timezone.utc)
EpochTime == 0

\* instants: one tick before the epoch up to MaxTime
Times == (EpochTime - 1)..MaxTime

\* Python's None (and any falsy document): "if old_activities:" is false for it
None == << >>

\* _partition_filename was not called
NoPartition == partition = None

\* trakt_api_paginated_get was not called
NoPagination ==
    /\ page_pc = "idle"
    /\ page = 1
    /\ page_count = 1
    /\ item_count = 0
    /\ results = << >>
    /\ page_requests = << >>
    /\ last_page_count = None
    /\ warned = FALSE

\* the record of a first run that has not ended
NoPrev == [pc |-> "", stale |-> {}, written |-> {}]

\* this is the first run
FirstRun == run = 1 /\ prev = NoPrev

----------------------------------------------------------------------------
(* Activity snapshots (trakt.LastActivities), the fields export.py reads *)

AllField == <<"all">>

Fields ==
    { AllField,
      <<"movies", "collected_at">>, <<"movies", "watched_at">>,
      <<"movies", "rated_at">>, <<"movies", "commented_at">>,
      <<"movies", "paused_at">>, <<"movies", "hidden_at">>,
      <<"episodes", "collected_at">>, <<"episodes", "watched_at">>,
      <<"episodes", "rated_at">>, <<"episodes", "commented_at">>,
      <<"episodes", "paused_at">>,
      <<"shows", "rated_at">>, <<"shows", "commented_at">>,
      <<"shows", "hidden_at">>, <<"shows", "dropped_at">>,
      <<"seasons", "rated_at">>, <<"seasons", "commented_at">>,
      <<"seasons", "hidden_at">>,
      <<"comments", "liked_at">>,
      <<"lists", "liked_at">>, <<"lists", "updated_at">>,
      <<"lists", "commented_at">>,
      <<"watchlist", "updated_at">>,
      <<"account", "settings_at">> }

Max2(a, b) == IF a >= b THEN a ELSE b

\* mutants of _compare_datetime_strs: strict comparison; arguments swapped
_compare_datetime_strs_gt(a, b) == a > b
_compare_datetime_strs_swapped(a, b) == b >= a
\* datetime.fromisoformat(a) >= datetime.fromisoformat(b)
_compare_datetime_strs(a, b) == a >= b

\* mutant of _last_hidden_at_activities: seasons.hidden_at left out
_last_hidden_at_two(activities) ==
    Max2(activities[<<"movies", "hidden_at">>],
         activities[<<"shows", "hidden_at">>])
_last_hidden_at_activities(activities) ==
    Max2(Max2(activities[<<"movies", "hidden_at">>],
              activities[<<"shows", "hidden_at">>]),
         activities[<<"seasons", "hidden_at">>])

_last_dropped_at_activities(activities) ==
    activities[<<"shows", "dropped_at">>]

\* mutant of _last_watched_at_activities: episodes.watched_at left out
_last_watched_at_movies(activities) ==
    activities[<<"movies", "watched_at">>]
_last_watched_at_activities(activities) ==
    Max2(activities[<<"movies", "watched_at">>],
         activities[<<"episodes", "watched_at">>])

_last_paused_at_activities(activities) ==
    Max2(activities[<<"movies", "paused_at">>],
         activities[<<"episodes", "paused_at">>])

----------------------------------------------------------------------------
(* Tracked output paths *)

LastActivitiesPath == <<"user", "last-activities.json">>
StatsPath == <<"user", "stats.json">>
ProfilePath == <<"user", "profile.json">>
HistoryPath == <<"watched", "history.json">>
PlaybackPath == <<"watched", "playback.json">>
WatchedShowsPath == <<"watched", "watched-shows.json">>
ProgressShowsPath == <<"watched", "progress-shows.json">>
UpNextPath == <<"watched", "up-next.json">>
ListsPath == <<"lists", "lists.json">>
HiddenDroppedPath == <<"hidden", "hidden-dropped.json">>
HiddenProgressWatchedPath == <<"hidden", "hidden-progress-watched.json">>

\* the Freshness Mapping Table: <<namespace_key, activity_key, path>>
exports ==
    << <<"movies", "collected_at", <<"collection", "collection-movies.json">> >>,
       <<"movies", "watched_at", <<"watched", "watched-movies.json">> >>,
       <<"movies", "rated_at", <<"ratings", "ratings-movies.json">> >>,
       <<"movies", "commented_at", <<"comments", "comments-movies.json">> >>,
       <<"episodes", "collected_at", <<"collection", "collection-shows.json">> >>,
       <<"episodes", "watched_at", WatchedShowsPath>>,
       <<"episodes", "watched_at", ProgressShowsPath>>,
       <<"episodes", "watched_at", UpNextPath>>,
       <<"episodes", "rated_at", <<"ratings", "ratings-episodes.json">> >>,
       <<"episodes", "commented_at", <<"comments", "comments-episodes.json">> >>,
       <<"shows", "rated_at", <<"ratings", "ratings-shows.json">> >>,
       <<"shows", "commented_at", <<"comments", "comments-shows.json">> >>,
       <<"seasons", "rated_at", <<"ratings", "ratings-seasons.json">> >>,
       <<"seasons", "commented_at", <<"comments", "comments-seasons.json">> >>,
       <<"comments", "liked_at", <<"likes", "likes-comments.json">> >>,
       <<"lists", "liked_at", <<"likes", "likes-lists.json">> >>,
       <<"lists", "updated_at", ListsPath>>,
       <<"lists", "commented_at", <<"comments", "comments-lists.json">> >>,
       <<"watchlist", "updated_at", <<"lists", "watchlist.json">> >>,
       <<"account", "settings_at", ProfilePath>> >>

\* the five files marked with hidden_at_fresh, in the order of the code
HiddenGroupPaths ==
    << <<"hidden", "hidden-calendar.json">>,
       <<"hidden", "hidden-progress-collected.json">>,
       <<"hidden", "hidden-progress-watched-reset.json">>,
       HiddenProgressWatchedPath,
       <<"hidden", "hidden-recommendations.json">> >>


----------------------------------------------------------------------------
(* _activities_outdated_paths: the freshness classifier *)

\* mutant of activities_fresh: the two snapshots swapped
activities_fresh_swapped(old, new) ==
    IF old # None
    THEN _compare_datetime_strs(new[AllField], old[AllField])
    ELSE FALSE
\* "activities_fresh": the verdict of last-activities.json and stats.json
activities_fresh(old, new) ==
    IF old # None
    THEN _compare_datetime_strs(old[AllField], new[AllField])
    ELSE FALSE

history_fresh(old, new) ==
    IF old # None
    THEN _last_watched_at_activities(new) >= _last_watched_at_activities(old)
    ELSE FALSE

playback_fresh(old, new) ==
    IF old # None
    THEN _last_paused_at_activities(new) >= _last_paused_at_activities(old)
    ELSE FALSE

\* the loop body for entry i of exports
export_fresh(old, new, i) ==
    IF old # None
    THEN LET old_date_str == old[<<exports[i][1], exports[i][2]>>]
             new_date_str == new[<<exports[i][1], exports[i][2]>>]
         IN  _compare_datetime_strs(old_date_str, new_date_str)
    ELSE FALSE

dropped_at_fresh(old, new) ==
    IF old # None
    THEN _last_dropped_at_activities(new) >= _last_dropped_at_activities(old)
    ELSE FALSE

hidden_at_fresh(old, new) ==
    LET old_activities_hidden_at ==
            IF old # None THEN _last_hidden_at_activities(old) ELSE EpochTime
        new_activities_hidden_at == _last_hidden_at_activities(new)
    IN  old_activities_hidden_at >= new_activities_hidden_at

\* the calls of _mark_path, in the order the code makes them: <<path, fresh>>
Marks(old, new) ==
    << <<LastActivitiesPath, activities_fresh(old, new)>>,
       <<StatsPath, activities_fresh(old, new)>>,
       <<HistoryPath, history_fresh(old, new)>>,
       <<PlaybackPath, playback_fresh(old, new)>> >>
    \o [i \in 1..Len(exports) |-> <<exports[i][3], export_fresh(old, new, i)>>]
    \o << <<HiddenDroppedPath, dropped_at_fresh(old, new)>> >>
    \o [i \in 1..Len(HiddenGroupPaths) |->
            <<HiddenGroupPaths[i], hidden_at_fresh(old, new)>>]

\* _mark_path: a path goes to fresh_paths if fresh, else to stale_paths
IsFreshMark(m) == m[2]
\* mutant of IsStaleMark: the "else" lost, every path is appended to stale_paths
IsStaleMark_always(m) == TRUE
IsStaleMark(m) == ~m[2]
MarkedPaths(ms) == [i \in 1..Len(ms) |-> ms[i][1]]

\* returns <<fresh_paths, stale_paths>>
_activities_outdated_paths(old, new) ==
    << MarkedPaths(SelectSeq(Marks(old, new), IsFreshMark)),
       MarkedPaths(SelectSeq(Marks(old, new), IsStaleMark)) >>

Range(s) == {s[i] : i \in 1..Len(s)}


----------------------------------------------------------------------------
(* write_json and the modification times it leaves *)

\* datetime.now(): the wall-clock instant of the command being run, the
\* latest instant the service can have reported
now == MaxTime

\* datetime.timestamp(): seconds since the Unix epoch
timestamp(instant) == instant - EpochTime

\* write_json(path, obj, mtime): the st_mtime of every file after the call.
\* mtime is None or <<t>> for the float t; path.write_text leaves the
\* wall-clock time, os.utime replaces it only when "if mtime:" is true,
\* which it is not for None and not for t = 0.
write_json(stamps, path, mtime) ==
    [q \in DOMAIN stamps \cup {path} |->
        IF q = path
        THEN IF mtime # None /\ mtime[1] # 0 THEN mtime[1] ELSE timestamp(now)
        ELSE stamps[q]]

RECURSIVE write_json_each(_, _)
\* write_json(output_path, data) for each of paths in turn: every call of
\* export.py passes no mtime
write_json_each(stamps, paths) ==
    IF paths = << >> THEN stamps
    ELSE write_json_each(write_json(stamps, paths[1], None), Tail(paths))

\* the modification times after a step of the run: the paths the step wrote
\* are stamped by write_json, the paths it unlinked are gone
StampWritten ==
    mtimes' =
        LET new_paths == SubSeq(written', Len(written) + 1, Len(written'))
            stamped == write_json_each(mtimes, new_paths)
        IN  [q \in files' |-> stamped[q]]

----------------------------------------------------------------------------
(* The media cache: cache.prune_cache_dir, the prune_cache of the single-  *)
(* file program (src/trakt_data.py) and the lookup _export_media_movie.    *)
(* A cache file is named by the trakt id of its movie; one tick is a day.  *)

MovieIds == 1..MaxMovies

\* st_mtime of a cache file: a server-reported instant, or a wall-clock
\* instant up to one tick after now (a clock that was ahead)
CacheTimes == (EpochTime - 1)..(now + 1)

\* --min-age values: "0", "1d", ...
MinAges == 0..MaxMinAge

\* --limit values: the digits as a number, and whether a "%" follows
LimitValues ==
    [number : (0 - 1)..(MaxMovies + 1), percent : {FALSE}]
    \cup [number : {0 - 50, 0, 50, 100, 150}, percent : {TRUE}]

\* cli.py 138-141: a float (here <<"float", p>> for p / 100) for "p%", else
\* an int
_parse_limit(value) ==
    IF value.percent THEN <<"float", value.number>> ELSE <<"int", value.number>>

\* Python's int() of the quotient num / den, den > 0: truncation toward zero
int(num, den) == IF num >= 0 THEN num \div den ELSE 0 - ((0 - num) \div den)

\* trakt_data.py 1446-1449
_parse_abs_limit(value, total) ==
    IF value.percent THEN int(total * value.number, 100) ELSE value.number

Min2(a, b) == IF a <= b THEN a ELSE b

\* mutant of Slice: the slice stops one element early
Slice_short(seq, k) ==
    IF k >= 0 THEN SubSeq(seq, 1, Min2(k, Len(seq)) - 1)
    ELSE SubSeq(seq, 1, Max2(Len(seq) + k, 0))
\* Python's seq[:k]: the first k elements, all but the last -k for k < 0
Slice(seq, k) ==
    IF k >= 0 THEN SubSeq(seq, 1, Min2(k, Len(seq)))
    ELSE SubSeq(seq, 1, Max2(Len(seq) + k, 0))

\* the orders random.shuffle, and the sort by w * random.random() with
\* positive weights w, can leave list(range(n)) in: every permutation
Shuffles(n) ==
    {indices \in [1..n -> 1..n] : \A i, j \in 1..n : indices[i] = indices[j] => i = j}

\* mutant of eligible: "<" replaced by "<="
eligible_or_equal(mtime, min_mtime) == mtime <= min_mtime
\* cache.py 86, trakt_data.py 1509: "if mtime < min_mtime"
eligible(mtime, min_mtime) == mtime < min_mtime

RECURSIVE SortedByAge(_, _)
\* files.sort(key=age): oldest last; S is a set of ids, stamps their mtimes
SortedByAge(S, stamps) ==
    IF S = {} THEN << >>
    ELSE LET f == CHOOSE x \in S : \A y \in S :
                      \/ stamps[x] > stamps[y]
                      \/ (stamps[x] = stamps[y] /\ x <= y)
         IN  <<f>> \o SortedByAge(S \ {f}, stamps)

\* file.unlink() for every file of removed
unlink(stamps, removed) == [f \in DOMAIN stamps \ removed |-> stamps[f]]

\* the record of a prune: who ran, its arguments, the cache before it, the
\* candidate pool (the list "files"), the selection and whether it raised
PruneRecord(fn, min_age, value, dry_run, pool, expired, raised) ==
    [fn |-> fn, min_age |-> min_age, value |-> value, dry_run |-> dry_run,
     before |-> cache, pool |-> pool, expired |-> expired, raised |-> raised]

NoPrune == PruneRecord("", 0, [number |-> 0, percent |-> FALSE], FALSE, {}, {}, FALSE)

\* the loop of cache.py 82-87 and trakt_data.py 1505-1510, then the sort
CandidateFiles(min_age) ==
    SortedByAge({f \in DOMAIN cache : eligible(cache[f], now - min_age)}, cache)

\* "assert age > 0" fails for some file of the cache
AgeAssertionFails == \E f \in DOMAIN cache : ~(now - cache[f] > 0)

\* the end of both prunes: log, and unlink unless dry_run
Expire(fn, min_age, value, dry_run, pool_files, expired_indices) ==
    LET expired == {pool_files[expired_indices[i]] : i \in 1..Len(expired_indices)}
    IN  /\ prune' = PruneRecord(fn, min_age, value, dry_run, Range(pool_files), expired, FALSE)
        /\ cache' = IF dry_run THEN cache ELSE unlink(cache, expired)

\* an AssertionError leaves the cache as it was
PruneRaises(fn, min_age, value, dry_run, pool) ==
    /\ prune' = PruneRecord(fn, min_age, value, dry_run, pool, {}, TRUE)
    /\ cache' = cache

\* cache.py 72-125
prune_cache_dir ==
    /\ cache_pc = "start"
    /\ cache_pc' = "pruned"
    /\ \E min_age \in MinAges, value \in LimitValues, dry_run \in BOOLEAN :
         LET limit == _parse_limit(value)
             pool_files == CandidateFiles(min_age)
             limit_abs == IF limit[1] = "float"
                          THEN int(Len(pool_files) * limit[2], 100)
                          ELSE limit[2]
         IN  IF AgeAssertionFails
             THEN PruneRaises("prune_cache_dir", min_age, value, dry_run, {})
             ELSE IF Len(pool_files) = 0
             THEN Expire("prune_cache_dir", min_age, value, dry_run, pool_files, << >>)
             ELSE IF limit[1] = "float" /\ ~(0 <= limit[2] /\ limit[2] <= 100)
             THEN PruneRaises("prune_cache_dir", min_age, value, dry_run, Range(pool_files))
             ELSE \E indices \in Shuffles(Len(pool_files)) :
                      Expire("prune_cache_dir", min_age, value, dry_run, pool_files,
                             Slice(indices, limit_abs))
    /\ UNCHANGED <<lookup, not_cache_vars>>

\* trakt_data.py 1452-1464, given the order the randomized weights sort to
_weighted_shuffle(indices, limit) ==
    IF Len(indices) <= limit THEN indices ELSE Slice(indices, limit)

\* trakt_data.py 1495-1540
prune_cache ==
    /\ cache_pc = "start"
    /\ cache_pc' = "pruned"
    /\ \E min_age \in MinAges, value \in LimitValues, dry_run \in BOOLEAN :
         LET pool_files == CandidateFiles(min_age)
             limit_abs == _parse_abs_limit(value, Len(pool_files))
         IN  IF AgeAssertionFails
             THEN PruneRaises("prune_cache", min_age, value, dry_run, {})
             ELSE IF Len(pool_files) = 0
             THEN Expire("prune_cache", min_age, value, dry_run, pool_files, << >>)
             ELSE \E indices \in Shuffles(Len(pool_files)) :
                      LET expired_indices == _weighted_shuffle(indices, limit_abs)
                      IN  IF ~(Len(expired_indices) <= limit_abs)
                          THEN PruneRaises("prune_cache", min_age, value, dry_run,
                                           Range(pool_files))
                          ELSE Expire("prune_cache", min_age, value, dry_run, pool_files,
                                      expired_indices)
    /\ UNCHANGED <<lookup, not_cache_vars>>

\* mutant of cached: the lookup never finds the file
cached_never(trakt_id) == FALSE
\* metrics.py 335: output_path.exists()
cached(trakt_id) == trakt_id \in DOMAIN cache

\* the record of a lookup: the movie, whether its file existed, what the
\* lookup did ("cached", "fetched", "raised") and the updated_at it fetched
LookupRecord(trakt_id, outcome, updated_at) ==
    [trakt_id |-> trakt_id, existed |-> trakt_id \in DOMAIN cache,
     outcome |-> outcome, updated_at |-> updated_at]

NoLookup == [trakt_id |-> 0, existed |-> FALSE, outcome |-> "", updated_at |-> None]

\* metrics.py 329-347
_export_media_movie ==
    /\ cache_pc \in {"start", "pruned"}
    /\ cache_pc' = "looked_up"
    /\ \E trakt_id \in MovieIds :
         IF cached(trakt_id)
         THEN /\ lookup' = LookupRecord(trakt_id, "cached", None)
              /\ cache' = cache
         ELSE \/ /\ lookup' = LookupRecord(trakt_id, "raised", None)
                 /\ cache' = cache                  \* raise_for_status
              \/ \E updated_at \in Times :          \* data["updated_at"]
                 LET mtime == timestamp(updated_at)
                 IN  /\ lookup' = LookupRecord(trakt_id, "fetched", <<updated_at>>)
                     /\ cache' = write_json(cache, trakt_id, <<mtime>>)
    /\ UNCHANGED <<prune, not_cache_vars>>

\* no command was run on the media cache
CacheUntouched ==
    /\ cache = << >>
    /\ cache_pc = "start"
    /\ prune = NoPrune
    /\ lookup = NoLookup

----------------------------------------------------------------------------
(* export_all: the fixed order of the exporter calls (lines 530-560) *)

ListPath(list_id) == <<"lists", "list-" \o ToString(list_id) \o "-slug.json">>
ListItemsRequest(list_id) == "/users/me/lists/" \o ToString(list_id) \o "/items"
ListIds == 1..MaxLists

\* fn: the exporter function; path: its output_path; req: the path it GETs
\* ("" where the exporter has no single request of its own)
Exporters ==
    << [fn |-> "_export_collection", path |-> <<"collection", "collection-movies.json">>, req |-> "/sync/collection/movies"],
       [fn |-> "_export_collection", path |-> <<"collection", "collection-shows.json">>, req |-> "/sync/collection/shows"],
       [fn |-> "_export_comments", path |-> <<"comments", "comments-episodes.json">>, req |-> "/users/me/comments/episodes"],
       [fn |-> "_export_comments", path |-> <<"comments", "comments-lists.json">>, req |-> "/users/me/comments/lists"],
       [fn |-> "_export_comments", path |-> <<"comments", "comments-movies.json">>, req |-> "/users/me/comments/movies"],
       [fn |-> "_export_comments", path |-> <<"comments", "comments-seasons.json">>, req |-> "/users/me/comments/seasons"],
       [fn |-> "_export_comments", path |-> <<"comments", "comments-shows.json">>, req |-> "/users/me/comments/shows"],
       [fn |-> "_export_hidden", path |-> <<"hidden", "hidden-calendar.json">>, req |-> "/users/hidden/calendar"],
       [fn |-> "_export_hidden", path |-> HiddenDroppedPath, req |-> "/users/hidden/dropped"],
       [fn |-> "_export_hidden", path |-> <<"hidden", "hidden-progress-collected.json">>, req |-> "/users/hidden/progress_collected"],
       [fn |-> "_export_hidden", path |-> <<"hidden", "hidden-progress-watched-reset.json">>, req |-> "/users/hidden/progress_watched_reset"],
       [fn |-> "_export_hidden", path |-> HiddenProgressWatchedPath, req |-> "/users/hidden/progress_watched"],
       [fn |-> "_export_hidden", path |-> <<"hidden", "hidden-recommendations.json">>, req |-> "/users/hidden/recommendations"],
       [fn |-> "_export_likes", path |-> <<"likes", "likes-comments.json">>, req |-> "/users/me/likes/comments"],
       [fn |-> "_export_likes", path |-> <<"likes", "likes-lists.json">>, req |-> "/users/me/likes/lists"],
       [fn |-> "_export_lists_lists", path |-> ListsPath, req |-> "/users/me/lists"],
       [fn |-> "_export_lists_watchlist", path |-> <<"lists", "watchlist.json">>, req |-> "/sync/watchlist"],
       [fn |-> "_export_ratings", path |-> <<"ratings", "ratings-episodes.json">>, req |-> "/sync/ratings/episodes"],
       [fn |-> "_export_ratings", path |-> <<"ratings", "ratings-movies.json">>, req |-> "/sync/ratings/movies"],
       [fn |-> "_export_ratings", path |-> <<"ratings", "ratings-seasons.json">>, req |-> "/sync/ratings/seasons"],
       [fn |-> "_export_ratings", path |-> <<"ratings", "ratings-shows.json">>, req |-> "/sync/ratings/shows"],
       [fn |-> "_export_user_profile", path |-> ProfilePath, req |-> "/users/me"],
       [fn |-> "_export_user_stats", path |-> StatsPath, req |-> "/users/me/stats"],
       [fn |-> "_export_watched_history", path |-> HistoryPath, req |-> "/sync/history"],
       [fn |-> "_export_watched_playback", path |-> PlaybackPath, req |-> "/sync/playback"],
       [fn |-> "_export_watched", path |-> <<"watched", "watched-movies.json">>, req |-> "/sync/watched/movies"],
       [fn |-> "_export_watched", path |-> WatchedShowsPath, req |-> "/sync/watched/shows"],
       [fn |-> "_export_shows_watched_progress", path |-> ProgressShowsPath, req |-> ""],
       [fn |-> "_export_shows_up_next", path |-> UpNextPath, req |-> ""] >>

\* pc while exporter call i is the next to run: the file name of its output
Label(i) == Exporters[i].path[2]
LabelAfter(i) == IF i = Len(Exporters) THEN "done" ELSE Label(i + 1)
PreambleLabels == {"read_old", "last_activities", "classify"}

LastActivitiesRequest == "/sync/last_activities"

\* lines 519-525: classify and store the verdicts in ctx
Classify ==
    /\ pc = "classify"
    /\ fresh_paths' = _activities_outdated_paths(old_activities, last_activities)[1]
    /\ stale_paths' = _activities_outdated_paths(old_activities, last_activities)[2]
    /\ pc' = Label(1)
    /\ UNCHANGED <<files, disk_activities, remote_activities, remote_lists,
                   exclude_paths, old_activities, last_activities, requests,
                   written, start_vars, content_vars, mtimes>>

----------------------------------------------------------------------------
(* The classifier on its own: export_all stands at line 519 with an         *)
(* arbitrary old snapshot (or none) and an arbitrary new one.               *)

TableFields == {<<exports[i][1], exports[i][2]>> : i \in 1..Len(exports)}

\* the fields that vary independently in one pair of snapshots
FocusGroups ==
    { {AllField},
      {<<"movies", "watched_at">>, <<"episodes", "watched_at">>},
      {<<"movies", "paused_at">>, <<"episodes", "paused_at">>},
      {<<"movies", "hidden_at">>, <<"shows", "hidden_at">>, <<"seasons", "hidden_at">>},
      {<<"shows", "dropped_at">>} }
    \cup {{f} : f \in TableFields}

\* every field is base, but the fields of group g, which take vals
SnapshotWith(base, g, vals) ==
    [f \in Fields |-> IF f \in g THEN vals[f] ELSE base]

Uniform(t) == [f \in Fields |-> t]

InitClassify ==
    \E g \in FocusGroups, bo \in Times, bn \in Times, has_old \in BOOLEAN :
      \E vo \in [g -> Times], vn \in [g -> Times] :
        /\ old_activities = IF has_old THEN SnapshotWith(bo, g, vo) ELSE None
        /\ last_activities = SnapshotWith(bn, g, vn)
        /\ start_activities = old_activities
        /\ start_files = IF has_old THEN {LastActivitiesPath} ELSE {}
        /\ disk_activities = last_activities
        /\ remote_activities = last_activities
        /\ files = {LastActivitiesPath}
        /\ remote_lists = {}
        /\ exclude_paths = {}
        /\ fresh_paths = << >>
        /\ stale_paths = << >>
        /\ requests = <<LastActivitiesRequest>>
        /\ written = <<LastActivitiesPath>>
        /\ remote_history = << >>
        /\ disk_history = << >>
        /\ remote_shows = {}
        /\ disk_watched_shows = {}
        /\ disk_progress_shows = {}
        /\ mtimes = [q \in files |-> timestamp(now)]
        /\ CacheUntouched
        /\ NoPartition
        /\ NoPagination
        /\ FirstRun
        /\ pc = "classify"

NextClassify == Classify

SpecClassify == InitClassify /\ [][NextClassify]_vars


----------------------------------------------------------------------------
(* One run of export_all *)

IsPrefix(a, b) == Len(a) <= Len(b) /\ SubSeq(b, 1, Len(a)) = a

_excluded(path) ==
    \E excluded_path \in exclude_paths :
        \/ path = excluded_path
        \/ IsPrefix(excluded_path, path)    \* path.is_relative_to(excluded_path)

\* mutant of _fresh: every path is reported not fresh
_fresh_never(path) == FALSE
\* lines 52-63
_fresh(path) ==
    IF path \notin files THEN FALSE
    ELSE IF path \in Range(fresh_paths) THEN TRUE
    ELSE IF path \in Range(stale_paths) THEN FALSE
    ELSE FALSE

RECURSIVE SortedSeq(_)
\* the ids of a document, in ascending order
SortedSeq(S) ==
    IF S = {} THEN << >>
    ELSE LET m == CHOOSE x \in S : \A y \in S : x <= y
         IN  <<m>> \o SortedSeq(S \ {m})

\* mutant of read_old_activities: the file is read after the new snapshot
\* overwrote it
read_old_activities_after_write == remote_activities
\* mutant of read_old_activities: the file is never read
read_old_activities_none == None
\* lines 511-516: the old snapshot, read from disk when the file exists
read_old_activities ==
    IF LastActivitiesPath \in files THEN disk_activities ELSE None

ReadOldActivities ==
    /\ pc = "read_old"
    /\ old_activities' = read_old_activities
    /\ pc' = "last_activities"
    /\ UNCHANGED <<files, disk_activities, remote_activities, remote_lists,
                   exclude_paths, last_activities, fresh_paths, stale_paths,
                   requests, written, start_vars, content_vars, mtimes>>

\* line 517: fetch the new snapshot and overwrite last-activities.json
_export_user_last_activities ==
    /\ pc = "last_activities"
    /\ requests' = Append(requests, LastActivitiesRequest)
    /\ \/ /\ disk_activities' = remote_activities        \* write_json
          /\ files' = files \cup {LastActivitiesPath}
          /\ written' = Append(written, LastActivitiesPath)
          /\ last_activities' = remote_activities
          /\ pc' = "classify"
       \/ /\ pc' = "aborted"                             \* raise_for_status
          /\ UNCHANGED <<disk_activities, files, written, last_activities>>
    /\ UNCHANGED <<remote_activities, remote_lists, exclude_paths,
                   old_activities, fresh_paths, stale_paths, start_vars,
                   content_vars>>
    /\ StampWritten

\* the exporters of the shape
\*   if _excluded(ctx, output_path) or _fresh(ctx, output_path): return
\*   data = trakt_api_[paginated_]get(...); write_json(output_path, data)
PlainExport(i) ==
    /\ pc = Label(i)
    /\ IF _excluded(Exporters[i].path) \/ _fresh(Exporters[i].path)
       THEN /\ pc' = LabelAfter(i)
            /\ UNCHANGED <<files, requests, written>>
       ELSE /\ requests' = Append(requests, Exporters[i].req)
            /\ \/ /\ files' = files \cup {Exporters[i].path}
                  /\ written' = Append(written, Exporters[i].path)
                  /\ pc' = LabelAfter(i)
               \/ /\ pc' = "aborted"
                  /\ UNCHANGED <<files, written>>
    /\ UNCHANGED <<disk_activities, remote_activities, remote_lists,
                   exclude_paths, old_activities, last_activities, fresh_paths,
                   stale_paths, start_vars>>
    /\ StampWritten

CallsOf(fn) == {i \in 1..Len(Exporters) : Exporters[i].fn = fn}

_export_collection ==
    \E i \in CallsOf("_export_collection") : PlainExport(i) /\ UNCHANGED content_vars
_export_comments ==
    \E i \in CallsOf("_export_comments") : PlainExport(i) /\ UNCHANGED content_vars
_export_hidden ==
    \E i \in CallsOf("_export_hidden") : PlainExport(i) /\ UNCHANGED content_vars
_export_likes ==
    \E i \in CallsOf("_export_likes") : PlainExport(i) /\ UNCHANGED content_vars
_export_lists_watchlist ==
    \E i \in CallsOf("_export_lists_watchlist") : PlainExport(i) /\ UNCHANGED content_vars
_export_ratings ==
    \E i \in CallsOf("_export_ratings") : PlainExport(i) /\ UNCHANGED content_vars
_export_user_profile ==
    \E i \in CallsOf("_export_user_profile") : PlainExport(i) /\ UNCHANGED content_vars
_export_user_stats ==
    \E i \in CallsOf("_export_user_stats") : PlainExport(i) /\ UNCHANGED content_vars
_export_watched_playback ==
    \E i \in CallsOf("_export_watched_playback") : PlainExport(i) /\ UNCHANGED content_vars
_export_watched ==
    \E i \in CallsOf("_export_watched") :
        /\ PlainExport(i)
        /\ disk_watched_shows' =
              IF written' # written /\ Exporters[i].path = WatchedShowsPath
              THEN remote_shows ELSE disk_watched_shows
        /\ UNCHANGED <<remote_history, disk_history, remote_shows, disk_progress_shows>>

HistorySinceRequest == "/sync/history?start_at"
HistoryRequest == "/sync/history"

\* mutant of nothing_new: "<= 1" replaced by "== 0"
nothing_new_strict(new_items) == Len(new_items) = 0
\* line 124: "if len(new_items) <= 1" (the newest stored item is returned again)
nothing_new(new_items) == Len(new_items) <= 1

\* lines 110-130; there is no _excluded test in this exporter
_export_watched_history ==
    \E i \in CallsOf("_export_watched_history") :
      /\ pc = Label(i)
      /\ IF _fresh(HistoryPath)
         THEN /\ pc' = LabelAfter(i)
              /\ UNCHANGED <<files, requests, written, disk_history>>
         ELSE IF HistoryPath \in files /\ disk_history = << >>
         THEN /\ pc' = "crashed"                    \* existing_items[0]: IndexError
              /\ UNCHANGED <<files, requests, written, disk_history>>
         ELSE LET start_at == disk_history[1]
                  AtOrAfter(t) == t >= start_at
                  new_items == SelectSeq(remote_history, AtOrAfter)
                  incremental == HistoryPath \in files
                  before == IF incremental
                            THEN Append(requests, HistorySinceRequest)
                            ELSE requests
              IN  \/ /\ incremental                 \* the start_at request raises
                     /\ requests' = before
                     /\ pc' = "aborted"
                     /\ UNCHANGED <<files, written, disk_history>>
                  \/ /\ incremental /\ nothing_new(new_items)
                     /\ requests' = before
                     /\ pc' = LabelAfter(i)
                     /\ UNCHANGED <<files, written, disk_history>>
                  \/ /\ incremental => ~nothing_new(new_items)
                     /\ requests' = Append(before, HistoryRequest)
                     /\ \/ /\ files' = files \cup {HistoryPath}
                           /\ written' = Append(written, HistoryPath)
                           /\ disk_history' = remote_history
                           /\ pc' = LabelAfter(i)
                        \/ /\ pc' = "aborted"
                           /\ UNCHANGED <<files, written, disk_history>>
      /\ UNCHANGED <<disk_activities, remote_activities, remote_lists,
                     exclude_paths, old_activities, last_activities, fresh_paths,
                     stale_paths, start_vars, remote_history, remote_shows,
                     disk_watched_shows, disk_progress_shows>>
      /\ StampWritten

\* mutant of ListSkipped: the test "in ctx.fresh_paths" lost
ListSkipped_if_exists(list_id) ==
    \/ _excluded(ListPath(list_id))
    \/ ListPath(list_id) \in files
\* _export_lists_list returns early for these lists (lines 196-199)
ListSkipped(list_id) ==
    \/ _excluded(ListPath(list_id))
    \/ (ListPath(list_id) \in files /\ ListPath(list_id) \in Range(fresh_paths))

ListFetched(list_id) == ~ListSkipped(list_id)

\* mutant of old_lists: the test "list_id not in list_ids" lost
old_lists_all == {ListPath(l) : l \in ListIds} \cap files
\* lines 214-218: the files of glob("lists/list-*.json") whose id is not in
\* list_ids, the ids of the fetched lists document
old_lists == {ListPath(l) : l \in ListIds \ remote_lists} \cap files

\* lines 221-232, with _export_lists_list_all and _export_lists_list
_export_lists_lists ==
    \E i \in CallsOf("_export_lists_lists") :
      /\ pc = Label(i)
      /\ IF _excluded(ListsPath) \/ _fresh(ListsPath)
         THEN /\ pc' = LabelAfter(i)
              /\ UNCHANGED <<files, requests, written>>
         ELSE LET todo == SelectSeq(SortedSeq(remote_lists), ListFetched)
                  ItemsRequests(k) == [j \in 1..k |-> ListItemsRequest(todo[j])]
                  ItemsPaths(k) == [j \in 1..k |-> ListPath(todo[j])]
              IN  \/ /\ requests' = Append(requests, Exporters[i].req)
                     /\ pc' = "aborted"             \* GET /users/me/lists raises
                     /\ UNCHANGED <<files, written>>
                  \/ \E k \in 1..Len(todo) :        \* the k-th items request raises
                     /\ requests' = Append(requests, Exporters[i].req) \o ItemsRequests(k)
                     /\ written' = Append(written, ListsPath) \o ItemsPaths(k - 1)
                     /\ files' = files \cup {ListsPath} \cup Range(ItemsPaths(k - 1))
                     /\ pc' = "aborted"
                  \/ /\ requests' = Append(requests, Exporters[i].req)
                                      \o ItemsRequests(Len(todo))
                     /\ written' = Append(written, ListsPath) \o ItemsPaths(Len(todo))
                     /\ files' = ((files \cup {ListsPath}) \cup Range(ItemsPaths(Len(todo))))
                                   \ old_lists      \* path.unlink()
                     /\ pc' = LabelAfter(i)
      /\ UNCHANGED <<disk_activities, remote_activities, remote_lists,
                     exclude_paths, old_activities, last_activities, fresh_paths,
                     stale_paths, start_vars, content_vars>>
      /\ StampWritten

ProgressRequest(show_id) == "/shows/" \o ToString(show_id) \o "/progress/watched"

\* lines 258-280
_export_shows_watched_progress ==
    \E i \in CallsOf("_export_shows_watched_progress") :
      /\ pc = Label(i)
      /\ IF _excluded(ProgressShowsPath) \/ _fresh(ProgressShowsPath)
         THEN /\ pc' = LabelAfter(i)
              /\ UNCHANGED <<files, requests, written, disk_progress_shows>>
         ELSE IF WatchedShowsPath \notin files
         THEN /\ pc' = "crashed"                    \* read_text: FileNotFoundError
              /\ UNCHANGED <<files, requests, written, disk_progress_shows>>
         ELSE LET watched_shows == SortedSeq(disk_watched_shows)
                  Requests(k) == [j \in 1..k |-> ProgressRequest(watched_shows[j])]
              IN  \/ \E k \in 1..Len(watched_shows) :   \* the k-th request raises
                     /\ requests' = requests \o Requests(k)
                     /\ pc' = "aborted"
                     /\ UNCHANGED <<files, written, disk_progress_shows>>
                  \/ /\ requests' = requests \o Requests(Len(watched_shows))
                     /\ files' = files \cup {ProgressShowsPath}
                     /\ written' = Append(written, ProgressShowsPath)
                     /\ disk_progress_shows' = disk_watched_shows
                     /\ pc' = LabelAfter(i)
      /\ UNCHANGED <<disk_activities, remote_activities, remote_lists,
                     exclude_paths, old_activities, last_activities, fresh_paths,
                     stale_paths, start_vars, remote_history, disk_history,
                     remote_shows, disk_watched_shows>>
      /\ StampWritten

\* the files _export_shows_up_next reads (lines 326-351)
UpNextInputs ==
    {WatchedShowsPath, HiddenDroppedPath, HiddenProgressWatchedPath, ProgressShowsPath}

\* lines 320-392; it makes no remote request
_export_shows_up_next ==
    \E i \in CallsOf("_export_shows_up_next") :
      /\ pc = Label(i)
      /\ IF _excluded(UpNextPath) \/ _fresh(UpNextPath)
         THEN /\ pc' = LabelAfter(i)
              /\ UNCHANGED <<files, written>>
         ELSE IF \/ ~(UpNextInputs \subseteq files)             \* FileNotFoundError
                 \/ ~(disk_progress_shows \subseteq disk_watched_shows)  \* KeyError
         THEN /\ pc' = "crashed"
              /\ UNCHANGED <<files, written>>
         ELSE /\ files' = files \cup {UpNextPath}
              /\ written' = Append(written, UpNextPath)
              /\ pc' = LabelAfter(i)
      /\ UNCHANGED <<disk_activities, remote_activities, remote_lists,
                     exclude_paths, old_activities, last_activities, fresh_paths,
                     stale_paths, requests, start_vars, content_vars>>
      /\ StampWritten

----------------------------------------------------------------------------
(* The states a run starts from, and the run *)

\* every output path of export_all
TrackedPaths ==
    {Exporters[i].path : i \in 1..Len(Exporters)}
    \cup {LastActivitiesPath}
    \cup {ListPath(l) : l \in ListIds}

ShowIds == 1..MaxShows
HistoryInstants == 1..MaxHistory

RECURSIVE NewestFirst(_)
NewestFirst(S) ==
    IF S = {} THEN << >>
    ELSE LET m == CHOOSE x \in S : \A y \in S : x >= y
         IN  <<m>> \o NewestFirst(S \ {m})

\* a history document: items of distinct watch instants, newest first
HistoryDocs == {NewestFirst(S) : S \in SUBSET HistoryInstants}

\* the paths whose exporters read the show documents
ShowPaths == {WatchedShowsPath, ProgressShowsPath, UpNextPath}

\* A run starts from an output tree left by earlier runs (or by the user):
\* one path p is singled out; the tree holds every tracked path, none, all
\* but p, or p alone; the exclusion list is empty, p, or p's directory; the
\* stored snapshot (if any) and the remote one are uniform in time; the
\* documents p's exporter reads vary, the others are in step with the remote.
Init ==
    \E p \in TrackedPaths, bo \in Times, bn \in Times :
    \E fs \in {TrackedPaths, {}, TrackedPaths \ {p}, {p}},
       ex \in {{}, {p}, {<<p[1]>>}} :
    \E rl \in (IF p[1] = "lists" THEN SUBSET ListIds ELSE {ListIds}),
       rh \in (IF p = HistoryPath THEN HistoryDocs ELSE {NewestFirst(HistoryInstants)}),
       rs \in (IF p \in ShowPaths THEN SUBSET ShowIds ELSE {ShowIds}) :
    \E dh \in (IF HistoryPath \notin fs THEN {<< >>}
               ELSE IF p = HistoryPath THEN HistoryDocs ELSE {rh}),
       dws \in (IF WatchedShowsPath \notin fs THEN {{}}
                ELSE IF p \in ShowPaths THEN {rs, {}, ShowIds} ELSE {rs}) :
    \E dps \in (IF ProgressShowsPath \notin fs THEN {{}}
                ELSE IF p \in ShowPaths THEN {dws, ShowIds} ELSE {dws}) :
        /\ files = fs
        /\ exclude_paths = ex
        /\ disk_activities = IF LastActivitiesPath \in fs THEN Uniform(bo) ELSE None
        /\ start_activities = disk_activities
        /\ start_files = fs
        /\ remote_activities = Uniform(bn)
        /\ remote_lists = rl
        /\ remote_history = rh
        /\ disk_history = dh
        /\ remote_shows = rs
        /\ disk_watched_shows = dws
        /\ disk_progress_shows = dps
        /\ old_activities = None
        /\ last_activities = None
        /\ fresh_paths = << >>
        /\ stale_paths = << >>
        /\ requests = << >>
        /\ written = << >>
        /\ mtimes = [q \in fs |-> timestamp(now) - 1]    \* left by an earlier run
        /\ CacheUntouched
        /\ NoPartition
        /\ NoPagination
        /\ FirstRun
        /\ pc = "read_old"

Next ==
    \/ ReadOldActivities
    \/ _export_user_last_activities
    \/ Classify
    \/ _export_collection
    \/ _export_comments
    \/ _export_hidden
    \/ _export_likes
    \/ _export_lists_lists
    \/ _export_lists_watchlist
    \/ _export_ratings
    \/ _export_user_profile
    \/ _export_user_stats
    \/ _export_watched_history
    \/ _export_watched_playback
    \/ _export_watched
    \/ _export_shows_watched_progress
    \/ _export_shows_up_next

Spec == Init /\ [][Next]_vars

----------------------------------------------------------------------------
(* A session on the media cache: a prune, a media lookup, or a prune       *)
(* followed by a lookup, from any cache directory                          *)

\* no export run is under way and the output tree is empty
NoRun ==
    /\ FirstRun
    /\ pc = "done"
    /\ files = {}
    /\ mtimes = << >>
    /\ disk_activities = None
    /\ remote_activities = Uniform(EpochTime)
    /\ remote_lists = {}
    /\ exclude_paths = {}
    /\ old_activities = None
    /\ last_activities = None
    /\ fresh_paths = << >>
    /\ stale_paths = << >>
    /\ requests = << >>
    /\ written = << >>
    /\ start_activities = None
    /\ start_files = {}
    /\ remote_history = << >>
    /\ disk_history = << >>
    /\ remote_shows = {}
    /\ disk_watched_shows = {}
    /\ disk_progress_shows = {}

\* the cache directories: any set of movie files with any modification times
CacheDirs == UNION {[S -> CacheTimes] : S \in SUBSET MovieIds}

InitCache ==
    /\ NoRun
    /\ NoPartition
    /\ NoPagination
    /\ cache \in CacheDirs
    /\ cache_pc = "start"
    /\ prune = NoPrune
    /\ lookup = NoLookup

NextCache ==
    \/ prune_cache_dir
    \/ prune_cache
    \/ _export_media_movie

SpecCache == InitCache /\ [][NextCache]_vars

----------------------------------------------------------------------------
(* Claims about the classifier (checked under SpecClassify) *)

Classified == pc \notin PreambleLabels
HasOld == old_activities # None
IsFresh(p) == p \in Range(fresh_paths)
IsStale(p) == p \in Range(stale_paths)
OldField(f) == old_activities[f]
NewField(f) == last_activities[f]
TableField(i) == <<exports[i][1], exports[i][2]>>

\* the governed set, written out independently of the classifier
GovernedPaths ==
    {exports[i][3] : i \in 1..Len(exports)}
    \cup {LastActivitiesPath, StatsPath, HistoryPath, PlaybackPath}
    \cup { <<"hidden", "hidden-calendar.json">>,
           <<"hidden", "hidden-dropped.json">>,
           <<"hidden", "hidden-progress-collected.json">>,
           <<"hidden", "hidden-progress-watched-reset.json">>,
           <<"hidden", "hidden-progress-watched.json">>,
           <<"hidden", "hidden-recommendations.json">> }

NoDuplicates(s) == \A i, j \in 1..Len(s) : s[i] = s[j] => i = j

C4_Partition ==
    Classified =>
        /\ Range(fresh_paths) \cap Range(stale_paths) = {}
        /\ NoDuplicates(fresh_paths) /\ NoDuplicates(stale_paths)
        /\ Range(fresh_paths) \cup Range(stale_paths) = GovernedPaths

\* C4 witness: a classification without old snapshot and with both lists
\* non-empty (the hidden group is fresh, the rest stale).
C4_Witness ==
    /\ Classified /\ ~HasOld
    /\ fresh_paths # << >> /\ stale_paths # << >>

\* C5 as stated: without an old snapshot every governed path is stale and the
\* fresh list is empty, whatever the new snapshot.
C5_NoOldAllStale ==
    (Classified /\ ~HasOld) =>
        /\ fresh_paths = << >>
        /\ \A p \in GovernedPaths : IsStale(p)

\* C6: when an old snapshot exists and every field of the new snapshot equals
\* the old one, every governed path is fresh and the stale list is empty.
C6_EqualityIsFresh ==
    (Classified /\ HasOld /\ \A f \in Fields : NewField(f) = OldField(f)) =>
        /\ stale_paths = << >>
        /\ \A p \in GovernedPaths : IsFresh(p)

\* C6 witness: classified with an old snapshot equal to the new one.
C6_Witness ==
    /\ Classified /\ HasOld
    /\ old_activities = last_activities
    /\ IsFresh(<<"watched", "watched-movies.json">>)

HiddenFields ==
    {<<"movies", "hidden_at">>, <<"shows", "hidden_at">>, <<"seasons", "hidden_at">>}
HiddenFive ==
    { <<"hidden", "hidden-calendar.json">>,
      <<"hidden", "hidden-progress-collected.json">>,
      <<"hidden", "hidden-progress-watched-reset.json">>,
      <<"hidden", "hidden-progress-watched.json">>,
      <<"hidden", "hidden-recommendations.json">> }
\* the maximum of exactly the three hidden_at fields
HiddenWatermark(a) ==
    CHOOSE m \in {a[f] : f \in HiddenFields} : \A f \in HiddenFields : a[f] <= m

----------------------------------------------------------------------------
(* Claims about the run (checked under Spec) *)

\* the remote requests that fetch the resource stored at path p
RequestsOf(p) ==
    IF p = LastActivitiesPath THEN {LastActivitiesRequest}
    ELSE IF p = HistoryPath THEN {HistoryRequest, HistorySinceRequest}
    ELSE IF p = ProgressShowsPath THEN {ProgressRequest(sh) : sh \in ShowIds}
    ELSE IF p \in {ListPath(l) : l \in ListIds}
         THEN {ListItemsRequest(l) : l \in {x \in ListIds : ListPath(x) = p}}
    ELSE {Exporters[i].req : i \in {j \in 1..Len(Exporters) : Exporters[j].path = p}}
         \ {""}

\* C3 as stated: for every tracked path that equals or lies under an excluded
\* path, the run issues no request for its resource and does not write it.
C3_ExclusionWins ==
    \A p \in TrackedPaths :
        _excluded(p) =>
            /\ p \notin Range(written)
            /\ RequestsOf(p) \cap Range(requests) = {}

\* C9 as stated, for runs that complete: every non-excluded tracked file
\* (per-list files of lists that exist upstream included) that was absent when
\* the run began has been fetched and written by the end of the run.
C9_AbsentIsFetched ==
    pc = "done" =>
        \A p \in TrackedPaths :
            (/\ p \notin start_files
             /\ ~_excluded(p)
             /\ \A l \in ListIds : p = ListPath(l) => l \in remote_lists)
            => p \in Range(written)

\* C10: the first request of a run is the one for the activity snapshot; once
\* any other request was made, the fresh/stale lists are those computed from
\* the snapshot that was on disk when the run began and the new snapshot; the
\* old snapshot is the persisted one, not the one the run itself wrote.
C10_SnapshotFirst ==
    /\ requests # << >> => requests[1] = LastActivitiesRequest
    /\ Len(requests) >= 2 =>
          /\ Classified
          /\ <<fresh_paths, stale_paths>>
                = _activities_outdated_paths(start_activities, last_activities)
    /\ pc \notin {"read_old", "last_activities", "aborted"} =>
          /\ old_activities = start_activities
          /\ last_activities = remote_activities
          /\ disk_activities = remote_activities

\* C10 witness: a resource was requested after the snapshot, in a run whose
\* persisted old snapshot differs from the new one that overwrote it.
C10_Witness ==
    /\ Len(requests) >= 2
    /\ requests[1] = LastActivitiesRequest
    /\ start_activities # None
    /\ start_activities # last_activities
    /\ old_activities = start_activities
    /\ disk_activities = last_activities

\* the endpoint a request addresses: its path without the query parameters
\* (lines 119-123 and 129 both GET path="/sync/history")
Endpoint(request) ==
    IF request = HistorySinceRequest THEN HistoryRequest ELSE request

\* C11 as stated: in one run no endpoint is requested more than once (the
\* pages of one paginated listing are one request of the model).
C11_AtMostOneFetch ==
    \A i, j \in 1..Len(requests) :
        Endpoint(requests[i]) = Endpoint(requests[j]) => i = j

\* the last request of the run so far
LastRequest == requests[Len(requests)]

\* C12 as stated: a tracked file is written only when it was classified stale
\* or was absent when the run began; a file that existed and is classified
\* fresh is not written.
C12_WrittenOnlyWhenStale ==
    Classified =>
        \A p \in TrackedPaths :
            /\ p \in Range(written) => (IsStale(p) \/ p \notin start_files)
            /\ (p \in start_files /\ IsFresh(p)) => p \notin Range(written)

\* C12 amended: a tracked file other than user/last-activities.json is
\* written only after classification and only when it was absent or is not
\* classified fresh (stale, or not classified at all: the per-list files);
\* one that existed and is classified
\* fresh is neither written nor removed; when a request raised, the file that
\* request fetches was not written by the run. user/last-activities.json is
\* overwritten with the new snapshot in every run whose snapshot request
\* succeeded, whatever its classification.
C12_WriteFrame ==
    /\ \A p \in TrackedPaths \ {LastActivitiesPath} :
          /\ p \in Range(written) =>
                (Classified /\ (p \notin start_files \/ ~IsFresh(p)))
          /\ (Classified /\ p \in start_files /\ IsFresh(p)) =>
                (p \notin Range(written) /\ p \in files)
    /\ pc = "aborted" =>
          \A p \in TrackedPaths :
              LastRequest \in RequestsOf(p) => p \notin Range(written)
    /\ (pc = "aborted" /\ Len(requests) = 1) =>
          (written = << >> /\ disk_activities = start_activities)
    /\ (Len(requests) >= 1 /\ ~(pc = "aborted" /\ Len(requests) = 1)) =>
          (LastActivitiesPath \in Range(written)
             /\ disk_activities = remote_activities)

\* C12 witness: a completed run that left an existing fresh file alone, wrote
\* an existing stale one and overwrote last-activities.json although it is
\* classified fresh.
C12_Witness ==
    /\ pc = "done"
    /\ IsFresh(LastActivitiesPath) /\ LastActivitiesPath \in start_files
    /\ LastActivitiesPath \in Range(written)
    /\ \E p \in TrackedPaths :
          p \in start_files /\ IsFresh(p) /\ p \notin Range(written)
    /\ \E p \in TrackedPaths :
          p \in start_files /\ IsStale(p) /\ p \in Range(written)

\* the per-list files of the output tree
ListFiles == {ListPath(l) : l \in ListIds}

\* C13 as stated: no tracked file that existed when the run began is missing,
\* except per-list files; a per-list file that existed is missing exactly
\* when lists.json was refetched in this run and its id is not upstream.
C13_DeletedIffRefetched ==
    /\ \A p \in start_files \ ListFiles : p \in files
    /\ \A l \in ListIds :
          ListPath(l) \in start_files =>
              (ListPath(l) \notin files
                  <=> (ListsPath \in Range(written) /\ l \notin remote_lists))

\* C13 amended: no tracked file is ever removed except per-list files; a
\* per-list file that existed is removed exactly when lists.json was
\* refetched in this run, its id is not in the fetched lists document, and
\* every per-list items request of the run succeeded (the removal pass runs
\* after the last of them; a raising one ends the run before it).
C13_DeletedAfterAllLists ==
    /\ \A p \in start_files \ ListFiles : p \in files
    /\ \A l \in ListIds :
          ListPath(l) \in start_files =>
              (ListPath(l) \notin files
                  <=> (/\ ListsPath \in Range(written)
                       /\ l \notin remote_lists
                       /\ ~(pc = "aborted"
                              /\ \E m \in ListIds : LastRequest = ListItemsRequest(m))))

\* C13 witness: the run refetched lists.json, fetched a list that exists
\* upstream and removed the file of one that does not.
C13_Witness ==
    /\ ListsPath \in Range(written)
    /\ \E l \in ListIds :
          /\ l \notin remote_lists
          /\ ListPath(l) \in start_files /\ ListPath(l) \notin files
    /\ \E l \in remote_lists : ListPath(l) \in Range(written)

\* C18 as stated, for export runs: no step raises anything but a remote
\* failure.
C18_OnlyRemoteFailureAborts == pc # "crashed"

\* the server-reported time of the resource stored at a path of the mapping
\* table or at user/last-activities.json: the snapshot field that governs it
ServerTime(p) ==
    IF p = LastActivitiesPath THEN remote_activities[AllField]
    ELSE LET i == CHOOSE j \in 1..Len(exports) : exports[j][3] = p
         IN  remote_activities[TableField(i)]

\* C19 as stated: every file of the mapping table, and last-activities.json,
\* that the run wrote carries the server-reported time of its resource as
\* its modification time.
C19_MtimeIsServerTime ==
    \A p \in Range(written) :
        (p = LastActivitiesPath \/ \E i \in 1..Len(exports) : exports[i][3] = p)
            => mtimes[p] = timestamp(ServerTime(p))

----------------------------------------------------------------------------
(* Claims about the media cache (checked under SpecCache) *)

\* the last command on the cache was a prune
Pruned == cache_pc = "pruned"
\* a lookup followed a prune
LookedUpAfterPrune == cache_pc = "looked_up" /\ prune.fn # ""

\* the files of the cache directory the prune found that are strictly older
\* than now minus the minimum age
OldEnough ==
    {f \in DOMAIN prune.before : prune.before[f] < now - prune.min_age}

\* the configured limit as a count: the number itself, or the floor of the
\* percentage of the pool size
ConfiguredLimit ==
    IF prune.value.percent
    THEN (Cardinality(prune.pool) * prune.value.number) \div 100
    ELSE prune.value.number

\* C14 as stated: a prune selects no more files than the configured limit (a
\* negative limit allowing none) and only files of its candidate pool.
C14_WithinLimit ==
    Pruned =>
        /\ Cardinality(prune.expired) <= Max2(ConfiguredLimit, 0)
        /\ prune.expired \subseteq prune.pool

C17_MinAge ==
    Pruned =>
        /\ \A f \in DOMAIN prune.before \ OldEnough :
              /\ f \notin prune.pool
              /\ f \notin prune.expired
              /\ f \in DOMAIN cache /\ cache[f] = prune.before[f]
        /\ ~prune.raised => prune.pool = OldEnough
        /\ (/\ ~prune.raised
            /\ prune.value.percent
            /\ prune.value.number \in 0..100) =>
              Cardinality(prune.expired)
                  = (Cardinality(OldEnough) * prune.value.number) \div 100

\* C17 witness: a 50% prune of a cache of three files, one of them too young,
\* removed one of the two others and left the young one.
C17_Witness ==
    /\ Pruned /\ ~prune.raised /\ ~prune.dry_run
    /\ prune.min_age > 0
    /\ prune.value = [number |-> 50, percent |-> TRUE]
    /\ Cardinality(DOMAIN prune.before) = 3
    /\ Cardinality(OldEnough) = 2
    /\ Cardinality(prune.expired) = 1
    /\ \E f \in DOMAIN cache : cache[f] = now - prune.min_age

\* C20 as stated: after a lookup fetched a movie and wrote its file with
\* mtime = t, the timestamp of the fetched updated_at, the modification time
\* of the file is t.
C20_MtimeRoundTrip ==
    (cache_pc = "looked_up" /\ lookup.outcome = "fetched") =>
        cache[lookup.trakt_id] = timestamp(lookup.updated_at[1])

----------------------------------------------------------------------------
(* Further claims about the run (checked under Spec) *)

\* the lists of the fetched document that _export_lists_list_all reaches
\* before list l: the upstream lists of smaller id
ListsBefore(l) == {m \in remote_lists : m < l}

\* the run ended in a raising per-list items request of one of the lists S
RaisedInLists(S) ==
    pc = "aborted" /\ \E m \in S : LastRequest = ListItemsRequest(m)

\* C22 as stated, for runs that complete: every non-excluded tracked path that
\* existed when the run began and is in neither the fresh nor the stale set
\* (per-list files of lists that exist upstream included) was written.
C22_UnknownIsStale ==
    pc = "done" =>
        \A p \in TrackedPaths :
            (/\ p \in start_files
             /\ ~_excluded(p)
             /\ ~IsFresh(p) /\ ~IsStale(p)
             /\ \A l \in ListIds : p = ListPath(l) => l \in remote_lists)
            => p \in Range(written)

\* the snapshot value that governs a path: hidden watermark, dropped_at,
\* watched and paused watermarks, "all", or the field of the mapping table
GoverningValue(a, p) ==
    IF p \in HiddenFive THEN HiddenWatermark(a)
    ELSE IF p = HiddenDroppedPath THEN a[<<"shows", "dropped_at">>]
    ELSE IF p = HistoryPath
         THEN Max2(a[<<"movies", "watched_at">>], a[<<"episodes", "watched_at">>])
    ELSE IF p = PlaybackPath
         THEN Max2(a[<<"movies", "paused_at">>], a[<<"episodes", "paused_at">>])
    ELSE IF p \in {LastActivitiesPath, StatsPath} THEN a[AllField]
    ELSE LET i == CHOOSE j \in 1..Len(exports) : exports[j][3] = p
         IN  a[TableField(i)]

\* C25 as stated, for runs that complete: every non-excluded governed file
\* whose governing value is strictly later in the new snapshot than in the
\* old one was written in the run.
C25_NewActivityRefetches ==
    (pc = "done" /\ start_activities # None) =>
        \A p \in GovernedPaths :
            (/\ ~_excluded(p)
             /\ GoverningValue(last_activities, p) > GoverningValue(start_activities, p))
            => p \in Range(written)

\* export_all stands before a derived export that is about to compute path
Computes(path) ==
    /\ \E i \in 1..Len(Exporters) : Exporters[i].path = path /\ pc = Label(i)
    /\ ~_excluded(path) /\ ~_fresh(path)

\* C27 as stated: whenever the run is about to compute progress-shows.json,
\* watched-shows.json exists; whenever it is about to compute up-next.json,
\* watched-shows.json, progress-shows.json and the two hidden files exist.
C27_InputsExist ==
    /\ Computes(ProgressShowsPath) => WatchedShowsPath \in files
    /\ Computes(UpNextPath) => UpNextInputs \subseteq files

\* C28 as stated: a non-excluded per-list file is requested iff lists.json
\* was refetched in the run and its list is in the fetched document; when
\* lists.json was not refetched, no per-list file is requested, written or
\* removed.
C28_ListsFollowListsJson ==
    /\ \A l \in ListIds :
          ~_excluded(ListPath(l)) =>
              (ListItemsRequest(l) \in Range(requests)
                  <=> (ListsPath \in Range(written) /\ l \in remote_lists))
    /\ ListsPath \notin Range(written) =>
          \A l \in ListIds :
              /\ ListItemsRequest(l) \notin Range(requests)
              /\ ListPath(l) \notin Range(written)
              /\ ListPath(l) \in start_files => ListPath(l) \in files

\* C28 amended: a non-excluded per-list file is requested iff lists.json was
\* refetched in the run, its list is in the fetched document and no items
\* request of an earlier list of the document raised (a raising request ends
\* the run); it is written iff it was requested and its own request did not
\* raise; when lists.json was not refetched (fresh, excluded, or its request
\* raised), no per-list file is requested, written or removed.
C28_ListsFollowUntilRaise ==
    /\ \A l \in ListIds :
          ~_excluded(ListPath(l)) =>
              /\ ListItemsRequest(l) \in Range(requests)
                    <=> (/\ ListsPath \in Range(written)
                         /\ l \in remote_lists
                         /\ ~RaisedInLists(ListsBefore(l)))
              /\ ListPath(l) \in Range(written)
                    <=> (/\ ListItemsRequest(l) \in Range(requests)
                         /\ ~RaisedInLists({l}))
    /\ \A l \in ListIds :
          _excluded(ListPath(l)) =>
              (ListItemsRequest(l) \notin Range(requests)
                 /\ ListPath(l) \notin Range(written))
    /\ ListsPath \notin Range(written) =>
          \A l \in ListIds :
              /\ ListItemsRequest(l) \notin Range(requests)
              /\ ListPath(l) \notin Range(written)
              /\ ListPath(l) \in start_files => ListPath(l) \in files

\* C28 witness: lists.json was refetched and two lists of the document, whose
\* files existed, were requested and written again.
C28_Witness ==
    /\ ListsPath \in Range(written)
    /\ Cardinality(remote_lists) >= 2
    /\ \A l \in remote_lists :
          /\ ListPath(l) \in start_files
          /\ ListItemsRequest(l) \in Range(requests)
          /\ ListPath(l) \in Range(written)

\* export_all stands before _export_watched_history
AtHistory == \E i \in CallsOf("_export_watched_history") : pc = Label(i)

\* the number of remote history items watched at or after the first stored one
ReturnedSince ==
    Cardinality({i \in 1..Len(remote_history) : remote_history[i] >= disk_history[1]})

----------------------------------------------------------------------------
(* _partition_filename (metrics.py 130-136, trakt_data.py 1006-1012).      *)
(* A string is the sequence of its characters; the suffix ".json" is one   *)
(* character of the model, since no part of it is ever taken.              *)

\* the largest trakt id
MaxId == 120
Ids == 0..MaxId

DigitChars == <<"0", "1", "2", "3", "4", "5", "6", "7", "8", "9">>

RECURSIVE str(_)
\* str(id) for a non-negative int: its decimal digits
str(n) ==
    IF n < 10 THEN <<DigitChars[n + 1]>>
    ELSE Append(str(n \div 10), DigitChars[(n % 10) + 1])

\* the cache directories of the media kinds, below cache_dir
BaseDirs == {<<"media", "movies">>, <<"media", "shows">>}

\* the suffixes: ".json", and one that begins with a digit
Suffixes == {<<".json">>, <<"0", ".json">>}

\* mutant of _partition_filename: a one-digit id padded with a leading zero
_partition_filename_leading_zero(basedir, id, suffix) ==
    LET id_str == str(id)
        id_prefix == IF Len(id_str) = 1 THEN <<"0">> \o id_str
                     ELSE SubSeq(id_str, 1, 2)
    IN  [basedir |-> basedir, dir |-> id_prefix, name |-> id_str \o suffix]
\* basedir / id_prefix / f"{id}{suffix}": the directory it lies below, the
\* name of the prefix directory and the file name
_partition_filename(basedir, id, suffix) ==
    LET id_str == str(id)
        id_prefix == IF Len(id_str) = 1 THEN id_str \o <<"0">>
                     ELSE SubSeq(id_str, 1, 2)
    IN  [basedir |-> basedir, dir |-> id_prefix, name |-> id_str \o suffix]

\* one call of _partition_filename
PartitionFilename ==
    /\ partition # None
    /\ partition[1].path = None
    /\ partition' = <<[partition[1] EXCEPT !.path =
                         <<_partition_filename(partition[1].basedir, partition[1].id,
                                               partition[1].suffix)>>]>>
    /\ UNCHANGED <<run_vars, cache_vars, page_vars>>

InitPartition ==
    /\ NoRun
    /\ CacheUntouched
    /\ NoPagination
    /\ \E basedir \in BaseDirs, id \in Ids, suffix \in Suffixes :
          partition = <<[basedir |-> basedir, id |-> id, suffix |-> suffix,
                         path |-> None]>>

NextPartition == PartitionFilename

SpecPartition == InitPartition /\ [][NextPartition]_vars

\* the path the call returned
PartitionReturned == partition # None /\ partition[1].path # None
PartitionPath == partition[1].path[1]

RECURSIVE LeadingTwo(_)
\* the number made of the two leading decimal digits of n >= 10
LeadingTwo(n) == IF n < 100 THEN n ELSE LeadingTwo(n \div 10)

\* C21: the returned path lies below base_dir, in the directory named by the
\* first two digits of the id (the digit followed by "0" for a one-digit id),
\* and is named <id><suffix>; every id has a path, and no other id has the
\* same path for the same base_dir and suffix.
C21_PartitionedPath ==
    PartitionReturned =>
        LET id == partition[1].id
            basedir == partition[1].basedir
            suffix == partition[1].suffix
        IN  /\ PartitionPath.basedir = basedir
            /\ PartitionPath.dir =
                  IF id < 10 THEN <<DigitChars[id + 1], "0">>
                  ELSE <<DigitChars[(LeadingTwo(id) \div 10) + 1],
                         DigitChars[(LeadingTwo(id) % 10) + 1]>>
            /\ PartitionPath.name = str(id) \o suffix
            /\ \A other \in Ids \ {id} :
                  _partition_filename(basedir, other, suffix) # PartitionPath

\* C21 witness: id 7 went to directory "70", where id 70 goes too, with a
\* different file name.
C21_Witness ==
    /\ PartitionReturned
    /\ partition[1].id = 7
    /\ PartitionPath.dir = <<"7", "0">>
    /\ _partition_filename(partition[1].basedir, 70, partition[1].suffix).dir
          = PartitionPath.dir
    /\ _partition_filename(partition[1].basedir, 70, partition[1].suffix).name
          # PartitionPath.name

----------------------------------------------------------------------------
(* trakt_api_paginated_get (trakt.py 334-371, trakt_data.py 504-541): one   *)
(* call; the responses of the service are the inputs.                      *)

\* the largest page count a response reports
MaxPages == 3
\* the largest number of items on one page
MaxPageItems == 1

\* the items of page p when the response holds n of them
PageItems(p, n) == [i \in 1..n |-> <<p, i>>]

\* mutant of loop_continues: "<=" replaced by "<"
loop_continues_lt == page < page_count
\* line 349: "while page <= page_count"
loop_continues == page <= page_count

\* lines 349-367: one pass of the loop, the request of the page and its
\* response; page_requests records <<page, number of items received>>
PageRequest ==
    /\ page_pc = "loop"
    /\ loop_continues
    /\ \/ /\ page_pc' = "raised"                    \* raise_for_status
          /\ page_requests' = Append(page_requests, <<page, 0>>)
          /\ UNCHANGED <<page, page_count, item_count, results, last_page_count>>
       \/ /\ page_pc' = "asserted"                  \* a pagination header is
          /\ page_requests' = Append(page_requests, <<page, 0>>)  \* missing or wrong
          /\ UNCHANGED <<page, page_count, item_count, results, last_page_count>>
       \/ \E reported_pages \in 0..MaxPages,
             reported_items \in 0..(MaxPages * MaxPageItems),
             n \in 0..MaxPageItems :
          /\ page_requests' = Append(page_requests, <<page, n>>)
          /\ page_count' = reported_pages
          /\ item_count' = reported_items
          /\ last_page_count' = <<reported_pages>>
          /\ results' = results \o PageItems(page, n)
          /\ page' = page + 1
          /\ page_pc' = "loop"
    /\ UNCHANGED <<warned, run_vars, cache_vars, partition>>

\* lines 369-371: the loop is over; warn on a mismatch and return results
PageReturn ==
    /\ page_pc = "loop"
    /\ ~loop_continues
    /\ warned' = (Len(results) # item_count)
    /\ page_pc' = "returned"
    /\ UNCHANGED <<page, page_count, item_count, results, page_requests,
                   last_page_count, run_vars, cache_vars, partition>>

\* lines 342-347
InitPaginate ==
    /\ NoRun
    /\ CacheUntouched
    /\ NoPartition
    /\ page_pc = "loop"
    /\ page = 1
    /\ page_count = 1
    /\ item_count = 0
    /\ results = << >>
    /\ page_requests = << >>
    /\ last_page_count = None
    /\ warned = FALSE

NextPaginate ==
    \/ PageRequest
    \/ PageReturn

SpecPaginate == InitPaginate /\ [][NextPaginate]_vars

RECURSIVE Received(_)
\* the concatenation of the pages received, in the order of the requests
Received(reqs) ==
    IF reqs = << >> THEN << >>
    ELSE Received(SubSeq(reqs, 1, Len(reqs) - 1))
            \o PageItems(reqs[Len(reqs)][1], reqs[Len(reqs)][2])

\* the pages requested are 1, 2, ..., k in this order
RequestedUpTo(k) ==
    /\ Len(page_requests) = k
    /\ \A i \in 1..k : page_requests[i][1] = i

----------------------------------------------------------------------------
(* The distribution of the selection of the two prunes (checked under      *)
(* SpecCache): the equally likely outcomes of the random source are        *)
(* counted.                                                                *)

\* the number of equally likely values random.random() is cut into
RandomGrid == 4
\* random.random(): the midpoints (2k - 1) / (2 * RandomGrid) of the cells
\* of [0, 1), kept as their numerators
Draws == {2 * k - 1 : k \in 1..RandomGrid}

\* trakt_data.py 1453-1462: position i sorts before position j in
\* randomized_weights.sort(reverse=True); the weight of i is 1 / values[i],
\* so (1 / values[i]) * draws[i] > (1 / values[j]) * draws[j], cross
\* multiplied; equal products are ordered by the index, largest first
SortsBefore(values, draws, i, j) ==
    \/ draws[i] * values[j] > draws[j] * values[i]
    \/ draws[i] * values[j] = draws[j] * values[i] /\ i > j

\* trakt_data.py 1452-1464: the indices in the order of the randomized
\* weights, for one draw of random.random() per value
randomized_order(values, draws) ==
    CHOOSE indices \in Shuffles(Len(values)) :
        \A k, l \in 1..Len(values) :
            k < l => SortsBefore(values, draws, indices[k], indices[l])

\* the list "files" of the last prune, youngest first, and the ages in it
PrunedPool == SortedByAge(prune.pool, prune.before)
PrunedAges == [i \in 1..Len(PrunedPool) |-> now - prune.before[PrunedPool[i]]]

\* the number of equally likely outcomes of the random source for which the
\* last prune, with a limit of one file, selects position i of its pool
Picks(i) ==
    IF prune.fn = "prune_cache_dir"
    THEN Cardinality({indices \in Shuffles(Len(PrunedPool)) :
                          Slice(indices, 1) = <<i>>})
    ELSE Cardinality({draws \in [1..Len(PrunedPool) -> Draws] :
                          _weighted_shuffle(randomized_order(PrunedAges, draws), 1) = <<i>>})

\* a prune chose one file out of two candidates of different ages
TwoCandidates ==
    /\ Pruned
    /\ ~prune.raised
    /\ Cardinality(prune.pool) = 2
    /\ Cardinality(prune.expired) = 1
    /\ \A f, g \in prune.pool : f # g => prune.before[f] # prune.before[g]

\* C23 as stated: when a prune selects one of two candidate files of ages
\* a1 > a2, the older file (position 2 of the pool) is selected by strictly
\* more of the equally likely outcomes than the younger one (position 1),
\* and the younger one by at least one.
C23_OlderMoreOften ==
    TwoCandidates => Picks(2) > Picks(1) /\ Picks(1) > 0

----------------------------------------------------------------------------
(* Two runs of export_all, one after the other, on the same output tree,   *)
(* with the same exclusions and an unchanged remote state.                 *)

\* the next invocation of export_all (export.py 489-516): a new context with
\* empty fresh_paths and stale_paths; the output tree, the exclusions and
\* the remote state are what the first run left
NextRun ==
    /\ pc \in {"done", "aborted", "crashed"}
    /\ run = 1
    /\ run' = 2
    /\ prev' = [pc |-> pc, stale |-> Range(stale_paths), written |-> Range(written)]
    /\ pc' = "read_old"
    /\ old_activities' = None
    /\ last_activities' = None
    /\ fresh_paths' = << >>
    /\ stale_paths' = << >>
    /\ requests' = << >>
    /\ written' = << >>
    /\ start_activities' = disk_activities
    /\ start_files' = files
    /\ UNCHANGED <<files, disk_activities, remote_activities, remote_lists,
                   exclude_paths, content_vars, mtimes, cache_vars, partition,
                   page_vars>>

\* the output tree before the first run: complete, empty, or lacking
\* progress-shows.json or the per-list files; the old snapshot bo, the new
\* one bn, the exclusions and the remote lists
InitRerun ==
    \E bo \in Times, bn \in Times :
    \E fs \in {TrackedPaths, {}, TrackedPaths \ {ProgressShowsPath},
                TrackedPaths \ {ListPath(l) : l \in ListIds}},
       ex \in {{}, {HistoryPath}, {<<"lists">>}, {ProgressShowsPath}},
       rl \in SUBSET ListIds :
        /\ files = fs
        /\ exclude_paths = ex
        /\ disk_activities = IF LastActivitiesPath \in fs THEN Uniform(bo) ELSE None
        /\ start_activities = disk_activities
        /\ start_files = fs
        /\ remote_activities = Uniform(bn)
        /\ remote_lists = rl
        /\ remote_history = NewestFirst(HistoryInstants)
        /\ disk_history = IF HistoryPath \in fs THEN remote_history ELSE << >>
        /\ remote_shows = ShowIds
        /\ disk_watched_shows = IF WatchedShowsPath \in fs THEN remote_shows ELSE {}
        /\ disk_progress_shows = IF ProgressShowsPath \in fs THEN remote_shows ELSE {}
        /\ old_activities = None
        /\ last_activities = None
        /\ fresh_paths = << >>
        /\ stale_paths = << >>
        /\ requests = << >>
        /\ written = << >>
        /\ mtimes = [q \in fs |-> timestamp(now) - 1]
        /\ CacheUntouched
        /\ NoPartition
        /\ NoPagination
        /\ FirstRun
        /\ pc = "read_old"

NextRerun ==
    \/ Next
    \/ NextRun

SpecRerun == InitRerun /\ [][NextRerun]_vars

\* the second run completed
SecondRunDone == run = 2 /\ pc = "done"

\* the run fetched (up-next.json: recomputed) and wrote the file at p
Refetched(p) == p \in Range(written)

\* C24 as stated: when a run classified a non-excluded tracked file stale and
\* aborted before writing it, the next run, if it completes, refetches the
\* file, the remote state being unchanged.
C24_StalenessSurvivesAbort ==
    (SecondRunDone /\ prev.pc = "aborted") =>
        \A p \in TrackedPaths :
            (p \in prev.stale /\ ~_excluded(p) /\ p \notin prev.written)
                => Refetched(p)

\* C26: the run that follows a completed run, with the same exclusions and
\* an unchanged remote state, issues the snapshot request and no other,
\* writes no file but user/last-activities.json and removes none.
C26_IdempotentRerun ==
    (run = 2 /\ prev.pc = "done") =>
        /\ pc \notin {"aborted", "crashed"} \/ Len(requests) = 1
        /\ \A i \in 1..Len(requests) : requests[i] = LastActivitiesRequest
        /\ Len(requests) <= 1
        /\ Range(written) \subseteq {LastActivitiesPath}
        /\ files = start_files
        /\ pc = "done" => requests = <<LastActivitiesRequest>>

\* C26 witness: the first run refetched files of a tree whose snapshot was
\* older than the remote one and completed; the second run completed with
\* the snapshot request alone.
C26_Witness ==
    /\ SecondRunDone
    /\ prev.pc = "done"
    /\ HistoryPath \in prev.written
    /\ ProgressShowsPath \in prev.written
    /\ requests = <<LastActivitiesRequest>>
    /\ written = <<LastActivitiesPath>>

====
